---- MODULE Spec2Model ----
(***************************************************************************)
(* Student Performance API (src/main.py, src/schemas.py).                  *)
(*                                                                         *)
(* The model has three parts:                                              *)
(*   - the pure statistics function compute_stats and the $addFields stage *)
(*     of the leaderboard pipeline, applied to bounded lists of documents  *)
(*     (specification SpecStats);                                          *)
(*   - the HTTP handlers acting on a document store that starts empty,     *)
(*     one store round-trip per step (specification Spec);                 *)
(*   - the overview and create handlers acting on a store that already     *)
(*     holds documents, including documents written by other clients of    *)
(*     the same database (specification SpecStore).                        *)
(*                                                                         *)
(* Python floats are modelled as exact rationals <<n, d>> in lowest terms, *)
(* d > 0.  An optional value is the empty tuple (None, null, absent key)   *)
(* or a one-element tuple.                                                 *)
(***************************************************************************)
EXTENDS Integers, Sequences, FiniteSets, TLC

VARIABLES
    students,      \* collection "student": sequence of documents, insertion order
    assessments,   \* collection "assessment": sequence of documents, insertion order
    ca,            \* the create_assessment requests in flight, one slot per client
    ov,            \* the overall_overview request in flight
    last,          \* the response of the last single-round-trip request
    budget,        \* how many more documents the clients of this run may create
    cs_in,         \* the list handed to compute_stats / held by the collection
    cs_out,        \* what compute_stats returned for cs_in
    pl_out         \* what the $addFields stage returned for cs_in

vars == <<students, assessments, ca, ov, last, budget, cs_in, cs_out, pl_out>>

storeVars == <<students, assessments, ca, ov, last, budget>>
statVars == <<cs_in, cs_out, pl_out>>

----------------------------------------------------------------------------
(* Optional values and exact rational arithmetic *)

None == <<>>
Some(x) == <<x>>
IsSome(o) == o # <<>>

\* dict.get(key, default) on a field that is present (<<v>>) or absent (<<>>)
Get(field, default) == IF field = <<>> THEN default ELSE field[1]

Abs(x) == IF x < 0 THEN -x ELSE x

RECURSIVE Gcd(_, _)
Gcd(a, b) == IF b = 0 THEN a ELSE Gcd(b, a % b)

\* n / d as a rational in lowest terms with a positive denominator (d # 0)
Rat(n, d) ==
    LET s == IF d < 0 THEN -1 ELSE 1
        g == Gcd(Abs(n), Abs(d))
    IN  <<(s * n) \div g, (s * d) \div g>>

RAdd(p, q) == Rat(p[1] * q[2] + q[1] * p[2], p[2] * q[2])
RDivInt(p, k) == Rat(p[1], p[2] * k)
RLt(p, q) == p[1] * q[2] < q[1] * p[2]
RLe(p, q) == p[1] * q[2] <= q[1] * p[2]

RECURSIVE RSum(_)
RSum(s) == IF s = <<>> THEN Rat(0, 1) ELSE RAdd(s[1], RSum(Tail(s)))

\* sum(v) / len(v)
RMean(s) == RDivInt(RSum(s), Len(s))

\* round(x, 2): the nearest multiple of 1/100, a tie going to the even one
Round2(p) ==
    LET n == p[1] * 100
        q == n \div p[2]
        r == n - q * p[2]
        m == IF 2 * r < p[2] THEN q
             ELSE IF 2 * r > p[2] THEN q + 1
             ELSE IF q % 2 = 0 THEN q ELSE q + 1
    IN  Rat(m, 100)

----------------------------------------------------------------------------
(* compute_stats, src/main.py:71-92 *)

\* float(a.get("score", 0))
Score(a) == Get(a.score, 0)

\* EffectiveTotal with the fallback removed: plain float(a.get("total", 0))
EffectiveTotalNoFallback(a) == Get(a.total, 0)

\* float(a.get("total", 0)) or 1
EffectiveTotal(a) == LET t == Get(a.total, 0) IN IF t = 0 THEN 1 ELSE t

\* a.get("subject", "Unknown")
Subject(a) == Get(a.subject, "Unknown")

\* (score / total) * 100.0, for a total that is not zero
Pct(a) == Rat(Score(a) * 100, EffectiveTotal(a))

\* the keys of a dict filled by setdefault in list order: first appearance order
InsertionOrder(keys) ==
    LET F[i \in 0..Len(keys)] ==
            IF i = 0 THEN <<>>
            ELSE LET prev == F[i - 1]
                 IN  IF \E j \in 1..Len(prev) : prev[j] = keys[i]
                     THEN prev
                     ELSE Append(prev, keys[i])
    IN  F[Len(keys)]

\* subject_scores[s]: the percentages of subject s, in list order
SubjectScores(list, s) ==
    LET F[i \in 0..Len(list)] ==
            IF i = 0 THEN <<>>
            ELSE LET prev == F[i - 1]
                 IN  IF Subject(list[i]) = s THEN Append(prev, Pct(list[i])) ELSE prev
    IN  F[Len(list)]

\* overall_scores: every percentage, in list order
OverallScores(list) == [i \in 1..Len(list) |-> Pct(list[i])]

\* PyMax picking the smallest value instead
PyMaxAsMin(keys, val) ==
    LET F[i \in 1..Len(keys)] ==
            IF i = 1 THEN keys[1]
            ELSE LET best == F[i - 1]
                 IN  IF RLt(val[keys[i]], val[best]) THEN keys[i] ELSE best
    IN  F[Len(keys)]

\* max(d, key=d.get): the first key, in iteration order, of the largest value
PyMax(keys, val) ==
    LET F[i \in 1..Len(keys)] ==
            IF i = 1 THEN keys[1]
            ELSE LET best == F[i - 1]
                 IN  IF RLt(val[best], val[keys[i]]) THEN keys[i] ELSE best
    IN  F[Len(keys)]

\* min(d, key=d.get): the first key, in iteration order, of the smallest value
PyMin(keys, val) ==
    LET F[i \in 1..Len(keys)] ==
            IF i = 1 THEN keys[1]
            ELSE LET best == F[i - 1]
                 IN  IF RLt(val[keys[i]], val[best]) THEN keys[i] ELSE best
    IN  F[Len(keys)]

\* per_subject: subject -> mean percentage, with the dict's key order
PerSubject(list) ==
    LET keys == InsertionOrder([i \in 1..Len(list) |-> Subject(list[i])])
    IN  [keys |-> keys,
         map  |-> [s \in {keys[j] : j \in 1..Len(keys)} |->
                       RMean(SubjectScores(list, s))]]

\* OverallAvg taken as the mean of the per-subject means
OverallAvgOfSubjectMeans(list) ==
    IF list = <<>> THEN Rat(0, 1)
    ELSE LET ps == PerSubject(list)
         IN  RMean([j \in 1..Len(ps.keys) |-> ps.map[ps.keys[j]]])

\* overall_avg = sum(overall_scores)/len(overall_scores) if overall_scores else 0.0
OverallAvg(list) ==
    IF OverallScores(list) = <<>> THEN Rat(0, 1) ELSE RMean(OverallScores(list))

\* the outcome of a call: a returned value or a raised exception
Returned(v) == [ok |-> TRUE, val |-> v, exc |-> ""]
Raised(e) == [ok |-> FALSE, val |-> <<>>, exc |-> e]

ComputeStats(list) ==
    IF \E i \in 1..Len(list) : EffectiveTotal(list[i]) = 0
    THEN Raised("ZeroDivisionError")
    ELSE LET ps == PerSubject(list)
         IN  Returned(
               [overall_average     |-> Round2(OverallAvg(list)),
                per_subject_average |-> [keys |-> ps.keys,
                                         map  |-> [s \in DOMAIN ps.map |-> Round2(ps.map[s])]],
                best_subject        |-> IF ps.keys # <<>> THEN Some(PyMax(ps.keys, ps.map)) ELSE None,
                worst_subject       |-> IF ps.keys # <<>> THEN Some(PyMin(ps.keys, ps.map)) ELSE None,
                assessments_count   |-> Len(list)])

----------------------------------------------------------------------------
(* The $addFields stage of the leaderboard pipeline, src/main.py:147-148 *)

\* {"$cond": [{"$gt": ["$total", 0]}, "$total", 1]}; an absent field is null,
\* and null is not greater than 0
PipelineTotal(a) == IF IsSome(a.total) /\ a.total[1] > 0 THEN a.total[1] ELSE 1

\* {"$multiply": [{"$divide": ["$score", <total>]}, 100]}; null when $score is absent
PipelinePct(a) ==
    IF IsSome(a.score) THEN Some(Rat(a.score[1] * 100, PipelineTotal(a))) ELSE None

\* the stage's output: one pct per input document, in order
AddFields(docs) == [i \in 1..Len(docs) |-> PipelinePct(docs[i])]


----------------------------------------------------------------------------
(* The remaining pipeline stages, src/main.py:149-151 *)

TopLimit == 5

\* the documents of a collection as a set of positions
Positions(docs) == 1..Len(docs)

\* the elements of a sequence
Range(s) == {s[i] : i \in 1..Len(s)}

\* the elements of s at the positions in P, in order
Pick(s, P) ==
    LET F[i \in 0..Len(s)] ==
            IF i = 0 THEN <<>>
            ELSE LET prev == F[i - 1]
                 IN  IF i \in P THEN Append(prev, s[i]) ELSE prev
    IN  F[Len(s)]

\* {"$avg": "$pct"}: the mean of the numeric values, null when there is none
AvgAcc(pcts) ==
    LET nums == Pick(pcts, {i \in 1..Len(pcts) : IsSome(pcts[i])})
    IN  IF nums = <<>> THEN None
        ELSE Some(RMean([i \in 1..Len(nums) |-> nums[i][1]]))

\* CountAcc taking 1 for the group instead of adding 1 per document
CountAccOnce(docs, k) == 1

\* {"$sum": 1}: the number of documents of the group
CountAcc(docs, k) == Cardinality({i \in Positions(docs) : docs[i].student_id = k})

\* {"$group": {"_id": "$student_id", "avgPct": {"$avg": "$pct"}, "count": {"$sum": 1}}}
\* over documents that carry their pct; one output document per distinct key
GroupStage(docs, pcts) ==
    {[_id    |-> k,
      avgPct |-> AvgAcc(Pick(pcts, {i \in Positions(docs) : docs[i].student_id = k})),
      count  |-> CountAcc(docs, k)]
        : k \in {docs[i].student_id : i \in Positions(docs)}}

\* SortsBefore with the order reversed: {"avgPct": 1}
SortsBeforeAscending(g, h) ==
    /\ IsSome(g.avgPct)
    /\ IsSome(h.avgPct)
    /\ RLt(g.avgPct[1], h.avgPct[1])

\* {"$sort": {"avgPct": -1}}: g must come before h; null sorts below every number
SortsBefore(g, h) ==
    /\ IsSome(g.avgPct)
    /\ \/ h.avgPct = None
       \/ RLt(h.avgPct[1], g.avgPct[1])

\* every order the $sort stage may return: documents of equal avgPct come in any order
RECURSIVE SortStage(_)
SortStage(G) ==
    IF G = {} THEN {<<>>}
    ELSE UNION {{<<g>> \o s : s \in SortStage(G \ {g})} :
                    g \in {x \in G : \A y \in G : ~SortsBefore(y, x)}}

\* {"$limit": 5}
LimitStage(s) == IF Len(s) <= TopLimit THEN s ELSE SubSeq(s, 1, TopLimit)

\* db["assessment"].aggregate(pipeline): the lists the store may return
Aggregate(docs) ==
    {LimitStage(s) : s \in SortStage(GroupStage(docs, AddFields(docs)))}

----------------------------------------------------------------------------
(* Identifiers, src/main.py:64-68 *)

\* An identifier string is the 24 hex digits of an ObjectId written in lower
\* case or in upper case, or any other string ("bad").  An ObjectId is a
\* positive number.
IdStr(oid, form) == [oid |-> oid, form |-> form]
BadId == [oid |-> 0, form |-> "bad"]

\* str(ObjectId): lower-case hex
StrOfObjectId(oid) == IdStr(oid, "lower")

\* to_object_id: ObjectId(id_str) parses 24 hex digits of either case;
\* any other string raises, turned into HTTPException(400)
ToObjectId(id_str) ==
    IF id_str.form \in {"lower", "upper"} THEN Returned(id_str.oid) ELSE Raised("HTTP400")

----------------------------------------------------------------------------
(* The document store *)

\* collection.find_one({"_id": oid}): the first document with that _id, or None
FindOne(coll, oid) ==
    LET P == {i \in 1..Len(coll) : coll[i]._id = oid}
    IN  IF P = {} THEN None ELSE Some(coll[CHOOSE i \in P : \A j \in P : i <= j])

\* the ObjectId the store gives the next document of a collection
FreshId(coll) == Len(coll) + 1

\* create_document(collection, record): the collection with the record added
\* under a fresh _id
CreateDocument(coll, record) == Append(coll, record)

\* get_documents(collection, {"student_id": sid}): the matching documents, in order
GetDocuments(coll, sid) == Pick(coll, {i \in 1..Len(coll) : coll[i].student_id = sid})

\* d["_id"] = str(d.get("_id")) for every document of a list
StrIds(docs) == [i \in 1..Len(docs) |-> [docs[i] EXCEPT !._id = StrOfObjectId(docs[i]._id)]]

----------------------------------------------------------------------------
(* Request bodies, src/schemas.py:42-60 *)

\* Assessment: score >= 0 (ge=0), total > 0 (gt=0), all three fields required
SchemaValid(a) ==
    /\ IsSome(a.subject)
    /\ IsSome(a.score) /\ a.score[1] >= 0
    /\ IsSome(a.total) /\ a.total[1] > 0
----------------------------------------------------------------------------
(* Bounded inputs of the handlers *)

MaxOid == 2
MaxCreates == 3
MaxCreatesStore == 1

Clients == {"c1", "c2"}
StoreClients == {"c1"}

ReqIds == {IdStr(o, f) : o \in 1..MaxOid, f \in {"lower", "upper"}} \cup {BadId}
ReqNames == {"Ann", "Bob"}
ReqSubjects == {"Math"}
ReqScores == {1, 10}
ReqTotals == {0, 2}

\* the bodies of POST /api/assessments that reach the framework
AssessmentBodies ==
    [student_id : ReqIds, subject : {Some(x) : x \in ReqSubjects},
     score : {Some(x) : x \in ReqScores}, total : {Some(x) : x \in ReqTotals}]

----------------------------------------------------------------------------
(* Handler state *)

IdleCA == [pc |-> "idle", sid |-> None, status |-> 0, id |-> None, seen |-> 0]

IdleOV ==
    [pc |-> "idle", status |-> 0, n1 |-> 0, n2 |-> 0, between |-> FALSE,
     aggOk |-> FALSE, failed |-> None, stats |-> None, top |-> <<>>, i |-> 0]

NoResponse == [op |-> "none", arg |-> None, status |-> 0, body |-> None]

\* the store of a fresh deployment
Init ==
    /\ students = <<>>
    /\ assessments = <<>>
    /\ ca = [c \in Clients |-> IdleCA]
    /\ ov = IdleOV
    /\ last = NoResponse
    /\ budget = MaxCreates
    /\ cs_in = <<>>
    /\ cs_out = None
    /\ pl_out = None

----------------------------------------------------------------------------
(* POST /api/students, src/main.py:96-99 *)

CreateStudent ==
    \E name \in ReqNames :
        /\ budget > 0
        /\ students' = CreateDocument(students, [_id |-> FreshId(students), name |-> name])
        /\ budget' = budget - 1
        /\ last' = [op |-> "create_student", arg |-> None, status |-> 200,
                    body |-> Some(StrOfObjectId(FreshId(students)))]
        /\ UNCHANGED <<assessments, ca, ov, statVars>>

----------------------------------------------------------------------------
(* POST /api/assessments, src/main.py:111-122 *)

\* the body fails the Assessment schema: the framework answers 422, the handler never runs
CreateAssessmentInvalid ==
    \E req \in AssessmentBodies :
        /\ ~SchemaValid(req)
        /\ last' = [op |-> "create_assessment", arg |-> None, status |-> 422, body |-> None]
        /\ UNCHANGED <<students, assessments, ca, ov, budget, statVars>>

\* LookupStudent letting the HTTPException of to_object_id through
LookupStudentStrict(sid, fail) ==
    LET r == ToObjectId(sid)
    IN  IF ~r.ok THEN Raised(r.exc)
        ELSE IF fail THEN Returned(None)
        ELSE Returned(FindOne(students, r.val))

\* lines 115-118: try: doc = find_one({"_id": to_object_id(sid)}); except Exception: doc = None
LookupStudent(sid, fail) ==
    LET r == ToObjectId(sid)
    IN  IF ~r.ok \/ fail THEN Returned(None) ELSE Returned(FindOne(students, r.val))

\* CheckFound accepting every lookup result
CheckFoundAlways(doc) == TRUE

\* line 119: if not doc
CheckFound(doc) == doc # None

\* lines 114-120: the lookup round-trip, then 404 or on to the insert.  The
\* request carries a valid body; only its student_id is read here, the other
\* fields are read by the insert and are drawn there.
CreateAssessmentFind(c) ==
    \E sid \in ReqIds, fail \in BOOLEAN :
        /\ ca[c].pc \in {"idle", "done"}
        /\ budget > 0
        /\ LET r == LookupStudent(sid, fail)
               slot == [IdleCA EXCEPT !.sid = Some(sid), !.seen = Len(students)]
           IN  IF ~r.ok
               THEN /\ ca' = [ca EXCEPT ![c] = [slot EXCEPT !.pc = "done", !.status = 400]]
                    /\ UNCHANGED budget
               ELSE IF ~CheckFound(r.val)
               THEN /\ ca' = [ca EXCEPT ![c] = [slot EXCEPT !.pc = "done", !.status = 404]]
                    /\ UNCHANGED budget
               ELSE /\ ca' = [ca EXCEPT ![c] = [slot EXCEPT !.pc = "insert"]]
                    /\ budget' = budget - 1
        /\ UNCHANGED <<students, assessments, ov, last, statVars>>

\* lines 121-122: the insert round-trip and the response
CreateAssessmentInsert(c) ==
    \E req \in AssessmentBodies :
        /\ ca[c].pc = "insert"
        /\ req.student_id = ca[c].sid[1]
        /\ SchemaValid(req)
        /\ assessments' = CreateDocument(assessments,
               [_id        |-> FreshId(assessments),
                student_id |-> req.student_id,
                subject    |-> req.subject,
                score      |-> req.score,
                total      |-> req.total])
        /\ ca' = [ca EXCEPT ![c].pc = "done", ![c].status = 200,
                            ![c].id = Some(StrOfObjectId(FreshId(assessments)))]
        /\ ov' = IF ov.pc = "agg" THEN [ov EXCEPT !.between = TRUE] ELSE ov
        /\ UNCHANGED <<students, last, budget, statVars>>

----------------------------------------------------------------------------
(* GET /api/students/{id}/assessments and /stats, src/main.py:125-137 *)

GetStudentAssessments ==
    \E sid \in ReqIds :
        /\ last' = [op |-> "get_student_assessments", arg |-> Some(sid), status |-> 200,
                    body |-> Some(StrIds(GetDocuments(assessments, sid)))]
        /\ UNCHANGED <<students, assessments, ca, ov, budget, statVars>>

GetStudentStats ==
    \E sid \in ReqIds :
        /\ LET r == ComputeStats(GetDocuments(assessments, sid))
           IN  last' = IF ~r.ok
                       THEN [op |-> "get_student_stats", arg |-> Some(sid),
                             status |-> 500, body |-> None]
                       ELSE [op |-> "get_student_stats", arg |-> Some(sid),
                             status |-> 200, body |-> Some(r.val)]
        /\ UNCHANGED <<students, assessments, ca, ov, budget, statVars>>

----------------------------------------------------------------------------
(* GET /api/overview, src/main.py:140-163 *)

\* line 156: t["student_id"] = t.pop("_id"); student_name is not set yet
Renamed(g) ==
    [student_id |-> g._id, avgPct |-> g.avgPct, count |-> g.count,
     student_name |-> None, has_name |-> FALSE]

\* StudentName ignoring the document found
StudentNameNever(sdoc) == None

\* line 159: sdoc.get("name") if sdoc else None
StudentName(sdoc) == IF sdoc # None THEN Some(sdoc[1].name) ELSE None

\* OnLeaderboardError keeping what the loop had built
OnLeaderboardErrorKeep(top) == top

\* lines 160-161: except Exception: top = []
OnLeaderboardError(top) == <<>>

\* lines 143-144: read every assessment, compute the statistics
OverviewRead ==
        /\ ov.pc \in {"idle", "done"}
        /\ LET r == ComputeStats(assessments)
           IN  ov' = IF ~r.ok
                     THEN [IdleOV EXCEPT !.pc = "done", !.status = 500]
                     ELSE [IdleOV EXCEPT !.pc = "agg", !.n1 = Len(assessments),
                                         !.stats = Some(r.val)]
        /\ UNCHANGED <<students, assessments, ca, last, budget, statVars>>

\* lines 153-156: run the pipeline; an exception empties the list
OverviewAggregate ==
    /\ ov.pc = "agg"
    /\ \E fail \in BOOLEAN, res \in Aggregate(assessments) :
           LET top == [j \in 1..Len(res) |-> Renamed(res[j])]
           IN  ov' = IF fail
                     THEN [ov EXCEPT !.pc = "done", !.status = 200, !.n2 = Len(assessments),
                                     !.top = OnLeaderboardError(<<>>)]
                     ELSE IF top = <<>>
                     THEN [ov EXCEPT !.pc = "done", !.status = 200, !.n2 = Len(assessments),
                                     !.aggOk = TRUE, !.top = top]
                     ELSE [ov EXCEPT !.pc = "lookup", !.n2 = Len(assessments),
                                     !.aggOk = TRUE, !.top = top, !.i = 1]
    /\ UNCHANGED <<students, assessments, ca, last, budget, statVars>>

\* lines 155-159, one iteration: resolve the entry's student and attach the name;
\* an exception of to_object_id or of the lookup empties the list
OverviewLookup ==
    \E fail \in BOOLEAN :
        /\ ov.pc = "lookup"
        /\ LET e == ov.top[ov.i]
               r == ToObjectId(e.student_id)
           IN  ov' = IF ~r.ok \/ fail
                     THEN [ov EXCEPT !.pc = "done", !.status = 200,
                                     !.failed = Some(e.student_id),
                                     !.top = OnLeaderboardError(ov.top)]
                     ELSE LET named == [ov.top EXCEPT ![ov.i].student_name =
                                            StudentName(FindOne(students, r.val)),
                                                      ![ov.i].has_name = TRUE]
                          IN  IF ov.i = Len(ov.top)
                              THEN [ov EXCEPT !.pc = "done", !.status = 200, !.top = named]
                              ELSE [ov EXCEPT !.top = named, !.i = ov.i + 1]
        /\ UNCHANGED <<students, assessments, ca, last, budget, statVars>>

----------------------------------------------------------------------------

\* the create handlers on the store of a fresh deployment
Next ==
    \/ CreateStudent
    \/ \E c \in DOMAIN ca : CreateAssessmentFind(c)
    \/ \E c \in DOMAIN ca : CreateAssessmentInsert(c)

Spec == Init /\ [][Next]_vars

----------------------------------------------------------------------------
(* A store that already holds documents.  The database is shared with other  *)
(* writers (src/schemas.py:65-68), so it may hold assessments whose          *)
(* student_id names no student or is no ObjectId at all.  The initial store  *)
(* is a prefix of one of a few insertion histories.                          *)

LegacyStudents ==
    <<[_id |-> 1, name |-> "Ann"], [_id |-> 2, name |-> "Bob"], [_id |-> 3, name |-> "Ann"]>>

LegacyIds ==
    <<IdStr(1, "lower"), IdStr(2, "lower"), IdStr(1, "upper"), IdStr(3, "lower"),
      IdStr(2, "upper"), IdStr(3, "upper"), IdStr(9, "lower"), BadId>>

LegacyScores == {<<3, 1, 3, 2, 1, 2, 4, 5>>, <<8, 7, 6, 5, 4, 3, 2, 1>>}

LegacyAssessments(k, scores) ==
    [i \in 1..k |->
        [_id        |-> i,
         student_id |-> LegacyIds[i],
         subject    |-> Some(IF i % 2 = 1 THEN "Math" ELSE "Sci"),
         score      |-> Some(scores[i]),
         total      |-> Some(4)]]

InitStore ==
    /\ students = LegacyStudents
    /\ \E k \in 0..Len(LegacyIds), scores \in LegacyScores :
           assessments = LegacyAssessments(k, scores)
    /\ ca = [c \in StoreClients |-> IdleCA]
    /\ ov = IdleOV
    /\ last = NoResponse
    /\ budget = MaxCreatesStore
    /\ cs_in = <<>>
    /\ cs_out = None
    /\ pl_out = None

\* the handlers that take a student identifier, on a store that holds documents
NextRead ==
    \/ CreateAssessmentInvalid
    \/ \E c \in DOMAIN ca : CreateAssessmentFind(c)
    \/ \E c \in DOMAIN ca : CreateAssessmentInsert(c)
    \/ GetStudentAssessments
    \/ GetStudentStats

SpecRead == InitStore /\ [][NextRead]_vars

\* the overview handler and concurrent create-assessment requests, on a store
\* that holds documents
NextStore ==
    \/ \E c \in DOMAIN ca : CreateAssessmentFind(c)
    \/ \E c \in DOMAIN ca : CreateAssessmentInsert(c)
    \/ OverviewRead
    \/ OverviewAggregate
    \/ OverviewLookup

SpecStore == InitStore /\ [][NextStore]_vars

----------------------------------------------------------------------------
(* Bounded inputs of the statistics specification *)

MaxLen == 3

StatSubjects == {Some("Math"), Some("Sci"), None}
StatScores == {Some(1), Some(10)}
StatTotals == {Some(0), Some(4), None}

StatDocs == [subject : StatSubjects, score : StatScores, total : StatTotals]

SeqsUpTo(S, n) == UNION {[1..k -> S] : k \in 0..n}

InitStats ==
    /\ cs_in \in SeqsUpTo(StatDocs, MaxLen)
    /\ cs_out = None
    /\ pl_out = None
    /\ students = <<>>
    /\ assessments = <<>>
    /\ ca = [c \in StoreClients |-> IdleCA]
    /\ ov = IdleOV
    /\ last = NoResponse
    /\ budget = 0

\* a caller runs compute_stats on the list
CallComputeStats ==
    /\ cs_out = None
    /\ cs_out' = Some(ComputeStats(cs_in))
    /\ UNCHANGED <<cs_in, pl_out, storeVars>>

\* the store runs the $addFields stage over the same documents
RunAddFields ==
    /\ pl_out = None
    /\ pl_out' = Some(AddFields(cs_in))
    /\ UNCHANGED <<cs_in, cs_out, storeVars>>

NextStats == CallComputeStats \/ RunAddFields

SpecStats == InitStats /\ [][NextStats]_vars

----------------------------------------------------------------------------
(* Arithmetic of the properties, stated apart from the operators above *)

\* score / effective_total * 100, effective_total being 1 for a zero or absent total
ClaimedPct(a) ==
    LET score == IF a.score = None THEN 0 ELSE a.score[1]
        total == IF a.total = None \/ a.total = Some(0) THEN 1 ELSE a.total[1]
    IN  Rat(score * 100, total)

ClaimedSubject(a) == IF a.subject = None THEN "Unknown" ELSE a.subject[1]

\* the exact mean of the percentages of a non-empty list of documents
RECURSIVE PctSumTo(_, _)
PctSumTo(docs, n) ==
    IF n = 0 THEN <<0, 1>>
    ELSE LET p == PctSumTo(docs, n - 1)
             q == ClaimedPct(docs[n])
         IN  Rat(p[1] * q[2] + q[1] * p[2], p[2] * q[2])

ExactMean(docs) == LET t == PctSumTo(docs, Len(docs)) IN Rat(t[1], t[2] * Len(docs))

SubjectMean(docs, s) == ExactMean(SelectSeq(docs, LAMBDA a : ClaimedSubject(a) = s))
StudentMean(docs, sid) == ExactMean(SelectSeq(docs, LAMBDA a : a.student_id = sid))

\* x is a multiple of 1/100 at distance at most 1/200 from exact
IsRounded2(x, exact) ==
    /\ 100 % x[2] = 0
    /\ 200 * Abs(x[1] * exact[2] - exact[1] * x[2]) <= x[2] * exact[2]

SubjectsIn(docs) == {ClaimedSubject(docs[i]) : i \in 1..Len(docs)}
StudentIdsIn(docs) == {docs[i].student_id : i \in 1..Len(docs)}

\* an identifier string that names a stored student
Resolves(sid) ==
    /\ sid.form \in {"lower", "upper"}
    /\ \E j \in 1..Len(students) : students[j]._id = sid.oid

\* what the overview request read: the collection at its first and second read
ReadDocs == SubSeq(assessments, 1, ov.n1)
AggDocs == SubSeq(assessments, 1, ov.n2)

RECURSIVE CountSum(_)
CountSum(top) == IF top = <<>> THEN 0 ELSE top[1].count + CountSum(Tail(top))

----------------------------------------------------------------------------
(* C1: a create-assessment request whose student_id named no stored student *)
(* when it was looked up (well-formed but absent, or not an ObjectId) ends  *)
(* with 404, returns no id, and the step that ends it leaves the collection *)
(* of assessments as it was.                                                *)

UnresolvedAtLookup(slot) ==
    \/ slot.sid[1].form \notin {"lower", "upper"}
    \/ slot.sid[1].oid \notin 1..slot.seen

T_C1_UnknownStudentNotFound ==
    [][\A c \in DOMAIN ca :
          (ca'[c] # ca[c] /\ ca'[c].pc = "done" /\ UnresolvedAtLookup(ca'[c]))
              => /\ ca'[c].status = 404
                 /\ ca'[c].id = None
                 /\ assessments' = assessments]_vars

\* both kinds of unknown student_id were answered 404 while the store held an assessment
W_C1_UnknownStudentNotFound ==
    /\ assessments # <<>>
    /\ \E c, d \in DOMAIN ca :
          /\ ca[c].pc = "done" /\ ca[c].status = 404 /\ ca[c].sid[1].form = "bad"
          /\ ca[d].pc = "done" /\ ca[d].status = 404 /\ ca[d].sid[1].form = "lower"
          /\ ca[d].sid[1].oid > ca[d].seen

----------------------------------------------------------------------------
(* C2: every operation that takes a student identifier string answers a    *)
(* malformed one with 400: create assessment, list assessments by student, *)
(* per-student stats.                                                      *)

CE_C2_MalformedIdIsBadRequest ==
    /\ \A c \in DOMAIN ca :
          (ca[c].pc = "done" /\ ca[c].sid[1].form = "bad") => ca[c].status = 400
    /\ (/\ last.op \in {"get_student_assessments", "get_student_stats"}
        /\ last.arg[1].form = "bad") => last.status = 400

----------------------------------------------------------------------------
(* C3: every stored assessment's student_id names a stored student, after  *)
(* any interleaving of the round-trips of create-student and               *)
(* create-assessment requests.                                             *)

T_C3_NoDanglingReference ==
    \A i \in 1..Len(assessments) : Resolves(assessments[i].student_id)

\* an assessment was stored by a request that a create-student overtook
\* between its lookup and its insert
W_C3_NoDanglingReference ==
    \E c \in DOMAIN ca :
       /\ ca[c].pc = "done" /\ ca[c].status = 200
       /\ ca[c].seen < Len(students)
       /\ assessments # <<>>

----------------------------------------------------------------------------
(* C4: the top_students of an overview response has at most 5 entries, at  *)
(* most one per student_id, each entry's average is that student_id's mean *)
(* percentage and is at least the next entry's, and no student_id left out *)
(* has a higher mean than one in the list (means over the collection as    *)
(* the leaderboard query read it).                                         *)

T_C4_TopStudentsBoundedSorted ==
    (ov.pc = "done" /\ ov.status = 200) =>
        LET top == ov.top
            listed == {top[i].student_id : i \in 1..Len(top)}
        IN  /\ Len(top) <= 5
            /\ \A i, j \in 1..Len(top) : i # j => top[i].student_id # top[j].student_id
            /\ \A i \in 1..Len(top) :
                  top[i].avgPct = Some(StudentMean(AggDocs, top[i].student_id))
            /\ \A i \in 1..(Len(top) - 1) : RLe(top[i + 1].avgPct[1], top[i].avgPct[1])
            /\ \A s \in StudentIdsIn(AggDocs) \ listed :
                  \A i \in 1..Len(top) : RLe(StudentMean(AggDocs, s), top[i].avgPct[1])

\* a response of 5 entries out of more than 5 student_ids, with a tie and a strict step
W_C4_TopStudentsBoundedSorted ==
    /\ ov.pc = "done" /\ ov.status = 200
    /\ Len(ov.top) = 5
    /\ Cardinality(StudentIdsIn(AggDocs)) > 5
    /\ \E i \in 1..4 : ov.top[i].avgPct = ov.top[i + 1].avgPct
    /\ \E i \in 1..4 : ov.top[i].avgPct # ov.top[i + 1].avgPct

----------------------------------------------------------------------------
(* C5, as stated: every entry the leaderboard query returned is in         *)
(* top_students, its student_name the name of the student its student_id   *)
(* resolves to, null when that student is missing or when the lookup       *)
(* failed.                                                                 *)

ExpectedName(sid) ==
    IF Resolves(sid)
    THEN Some((CHOOSE d \in Range(students) : d._id = sid.oid).name)
    ELSE None

CE_C5_NameNullEntryKept ==
    (ov.pc = "done" /\ ov.aggOk) =>
        /\ \A i \in 1..Len(ov.top) :
              /\ ov.top[i].has_name
              /\ ov.top[i].student_name = ExpectedName(ov.top[i].student_id)
        /\ ov.failed # None =>
              \E i \in 1..Len(ov.top) :
                 /\ ov.top[i].student_id = ov.failed[1]
                 /\ ov.top[i].student_name = None

(* C5, amended: when no lookup fails, every entry the leaderboard query    *)
(* returned is in top_students with student_name the name of the student   *)
(* its student_id resolves to, null when that student is missing; when a   *)
(* lookup fails (the student_id is no ObjectId, or the store raises),      *)
(* top_students is empty.                                                  *)

T_C5_NameAttachedOrListEmptied ==
    (ov.pc = "done" /\ ov.aggOk) =>
        /\ ov.failed # None => ov.top = <<>>
        /\ ov.failed = None =>
              /\ Len(ov.top) =
                    (IF Cardinality(StudentIdsIn(AggDocs)) <= 5
                     THEN Cardinality(StudentIdsIn(AggDocs)) ELSE 5)
              /\ \A i \in 1..Len(ov.top) :
                    /\ ov.top[i].has_name
                    /\ ov.top[i].student_name = ExpectedName(ov.top[i].student_id)

\* a response naming a stored student and holding an entry whose student is missing
W_C5_NameAttachedOrListEmptied ==
    /\ ov.pc = "done" /\ ov.aggOk /\ ov.failed = None
    /\ \E i, j \in 1..Len(ov.top) :
          /\ ov.top[i].student_name # None
          /\ ov.top[j].student_name = None
          /\ ~Resolves(ov.top[j].student_id)

----------------------------------------------------------------------------
(* C6: when the leaderboard query or a student lookup raises, the overview *)
(* request still answers 200, with the compute_stats result over all the   *)
(* assessments it read and top_students empty.                             *)

T_C6_LeaderboardFailureSwallowed ==
    (ov.pc = "done" /\ ov.stats # None /\ (~ov.aggOk \/ ov.failed # None)) =>
        /\ ov.status = 200
        /\ ov.top = <<>>
        /\ ov.stats[1] = ComputeStats(ReadDocs).val
        /\ ov.stats[1].assessments_count = ov.n1

\* a lookup raised after an earlier entry had been named
W_C6_LeaderboardFailureSwallowed ==
    /\ ov.pc = "done" /\ ov.aggOk /\ ov.failed # None
    /\ ov.n1 > 1
    /\ ov.failed[1] # AggDocs[1].student_id
    /\ ov.failed[1].form = "bad"

----------------------------------------------------------------------------
(* C10, as stated: in an overview response whose leaderboard succeeded and *)
(* whose assessments belong to at most 5 distinct students, the counts of  *)
(* top_students sum to at least assessments_count, and to exactly that     *)
(* when no create-assessment completed between the two reads.              *)

----------------------------------------------------------------------------
(* C7: compute_stats returns overall_average = the mean of the percentages *)
(* of all the assessments rounded to 2 places, 0.0 for the empty list, and *)
(* assessments_count = the length of the list.                             *)

----------------------------------------------------------------------------
(* C8: for a list with exactly two subjects of different averages,         *)
(* best_subject is the one with the higher average and worst_subject the   *)
(* other, whatever the order of the list; both are None for the empty list.*)

T_C8_BestWorstSubject ==
    (cs_out # None /\ cs_out[1].ok) =>
        /\ cs_in = <<>> =>
              /\ cs_out[1].val.best_subject = None
              /\ cs_out[1].val.worst_subject = None
        /\ \A s, t \in SubjectsIn(cs_in) :
              (/\ SubjectsIn(cs_in) = {s, t}
               /\ RLt(SubjectMean(cs_in, t), SubjectMean(cs_in, s))) =>
                  /\ cs_out[1].val.best_subject = Some(s)
                  /\ cs_out[1].val.worst_subject = Some(t)

\* the better subject comes last in the list and the worse one takes two assessments
W_C8_BestWorstSubject ==
    /\ cs_out # None /\ cs_out[1].ok
    /\ Len(cs_in) = 3
    /\ ClaimedSubject(cs_in[1]) = ClaimedSubject(cs_in[2])
    /\ ClaimedSubject(cs_in[3]) # ClaimedSubject(cs_in[1])
    /\ RLt(SubjectMean(cs_in, ClaimedSubject(cs_in[1])),
           SubjectMean(cs_in, ClaimedSubject(cs_in[3])))
    /\ cs_out[1].val.best_subject = Some(ClaimedSubject(cs_in[3]))

----------------------------------------------------------------------------
(* C9: compute_stats takes each percentage as score / effective_total *    *)
(* 100, effective_total being total, or 1 for a zero or absent total: no   *)
(* list raises, the averages are the rounded means of these percentages,   *)
(* score 10 with total 0 counts as 1000; and the leaderboard pipeline      *)
(* gives the same percentage to every document that passes the Assessment  *)
(* schema.                                                                 *)

T_C9_PercentageFallback ==
    /\ cs_out # None =>
          /\ cs_out[1].ok
          /\ cs_in # <<>> => IsRounded2(cs_out[1].val.overall_average, ExactMean(cs_in))
          /\ \A s \in SubjectsIn(cs_in) :
                IsRounded2(cs_out[1].val.per_subject_average.map[s], SubjectMean(cs_in, s))
          /\ (Len(cs_in) = 1 /\ cs_in[1].score = Some(10) /\ cs_in[1].total = Some(0)) =>
                cs_out[1].val.overall_average = <<1000, 1>>
    /\ pl_out # None =>
          \A i \in 1..Len(cs_in) :
             SchemaValid(cs_in[i]) => pl_out[1][i] = Some(ClaimedPct(cs_in[i]))

\* both were run on a list with a zero total, an absent total and a schema-valid document
W_C9_PercentageFallback ==
    /\ cs_out # None /\ pl_out # None
    /\ \E i, j, k \in 1..Len(cs_in) :
          /\ cs_in[i].score = Some(10) /\ cs_in[i].total = Some(0)
          /\ cs_in[j].total = None
          /\ SchemaValid(cs_in[k])

====
